---- MODULE Spec2Model ----
(***************************************************************************)
(* State-machine model of src/js/main.js: the blog listing pipeline        *)
(* (fetch, category filter, search, sort, render) and the post-detail      *)
(* view.  main.js holds the BlogPostManager class in two drafts:           *)
(*   "full"   lines 200-423 (repeated verbatim at 673-844): private        *)
(*            #state, category filter, search, sort;                       *)
(*   "simple" lines 1128-1348: public posts field, search, detail modal.   *)
(* The variable version says which draft the page instantiated.            *)
(* ContactForm has the same two drafts (433-536 and 1356-1428).            *)
(*                                                                         *)
(* Specifications:                                                         *)
(*   Spec        the blog listing and the detail view of a whole page;     *)
(*   SpecModal   the listeners setupModalEvents puts on a modal;           *)
(*   SpecRender  renderPosts called several times on one sequence;         *)
(*   SpecForm    the contact form;                                         *)
(*   SpecFormTimers  the contact form with its timers sure to fire;        *)
(*   SpecPage    page start-up on pages that lack elements;                *)
(*   SpecScroll  the header's opacity on scroll.                           *)
(*                                                                         *)
(* A text (title, body, search term) is a sequence of one-character        *)
(* strings, so that toLowerCase and includes are computed, not assumed.    *)
(* A JavaScript value that may be an array or undefined is the record      *)
(* [type, items].                                                          *)
(***************************************************************************)
EXTENDS Integers, Sequences, FiniteSets, Bags

VARIABLES
  version,         \* which BlogPostManager draft runs: "full" or "simple"
  document,        \* the JSON document served at /data/posts.json
  fetches,         \* posts requests in flight: "init" (from init), "extra" (line 1352)
  pc,              \* progress of init(): "loading", "fetched", "ready", "failed"
  posts,           \* #state.posts / this.posts
  categories,      \* #state.categories
  categoryOptions, \* option values of the category select setupCategoryFilter built
  currentFilter,   \* #state.currentFilter
  sortOrder,       \* #state.sortOrder
  searchValue,     \* value of the search input element (e.target.value)
  controls,        \* controls whose listener has been registered
  container,       \* innerHTML of the .blog-posts element
  commentRequests, \* comment requests in flight (a bag: they settle in any order)
  modals,          \* .post-detail-modal elements attached to document.body
  lastCall,        \* the handler that ran last: its inputs, console.error output, escape
  initSteps,       \* the calls init() has made so far, in order
  renders,         \* direct renderPosts calls made in a row on the same sequence
  page,            \* the page's elements, the handlers that ran, the exceptions that escaped
  form,            \* the contact form: fields, error spans, status element, timers
  header           \* the .header element: last scroll position handled, opacity, style

vars == <<version, document, fetches, pc, posts, categories, categoryOptions, currentFilter, sortOrder,
          searchValue, controls, container, commentRequests, modals, lastCall,
          initSteps, renders, page, form, header>>

\* what the blog listing and the detail view leave alone
aside == <<renders, page, form, header>>

----------------------------------------------------------------------------
(* Bounds of the model *)

\* longest post collection a document holds
MaxPosts == 2
\* most comment requests in flight at once
MaxPending == 1
\* longest comment list the comment service returns
MaxComments == 1

----------------------------------------------------------------------------
(* Texts *)

\* String.prototype.toLowerCase on one character of the model's alphabet
LowerChar(c) == CASE c = "A" -> "a" [] c = "B" -> "b" [] OTHER -> c

\* String.prototype.toLowerCase
toLowerCase(text) == [i \in 1..Len(text) |-> LowerChar(text[i])]

\* String.prototype.includes: term occurs in text at some offset
includes(text, term) ==
  \E start \in 0..Len(text) :
    /\ start + Len(term) <= Len(text)
    /\ \A k \in 1..Len(term) : text[start + k] = term[k]

----------------------------------------------------------------------------
(* Dates *)

\* new Date(iso) as a number: days since 2024-01-01, enough to order the dates
DateValue(date) ==
  CASE date = "2024-01-01" -> 0
    [] date = "2024-03-05" -> 64
    [] OTHER -> 1035

\* utils.formatDate: new Date(date).toLocaleDateString("ja-JP")
formatDate(date) ==
  CASE date = "2024-01-01" -> "2024/1/1"
    [] date = "2024-03-05" -> "2024/3/5"
    [] OTHER -> "2026/11/1"

\* new Date().toISOString() at the time the fallback post is built
NowISO == "2026-11-01T00:00:00.000Z"

----------------------------------------------------------------------------
(* JavaScript values *)

JsArray(items) == [type |-> "array", items |-> items]

JsUndefined == [type |-> "undefined", items |-> <<>>]

\* Array.prototype.filter, keeping the order of the array
RECURSIVE FilterSeq(_, _)
FilterSeq(items, keep) ==
  IF items = <<>> THEN <<>>
  ELSE IF keep[1] THEN <<Head(items)>> \o FilterSeq(Tail(items), Tail(keep))
  ELSE FilterSeq(Tail(items), Tail(keep))

----------------------------------------------------------------------------
(* The data source: /data/posts.json *)

Dates == {"2024-01-01", "2024-03-05"}

Categories == {"Tech", "tech"}

Titles == {<<"B">>, <<"a", "B">>}

Bodies == {<<>>, <<"A">>}

\* what a user can type into the search input
Terms == {<<>>, <<"a">>, <<"B">>}

Post(id, title, body, date, category) ==
  [id |-> id, title |-> title, body |-> body, date |-> date,
   author |-> "eight", category |-> category]

SeqsUpTo(S, n) == UNION {[1..k -> S] : k \in 0..n}

\* collections whose posts differ in their texts; they share the id 1
TextCollections ==
  SeqsUpTo({Post(1, t, b, "2024-01-01", "Tech") : t \in Titles, b \in Bodies}, MaxPosts)

\* collections whose posts differ in date and category; ids count from 1
MetaCollections ==
  {[i \in DOMAIN f |-> Post(i, <<"a">>, <<>>, f[i][1], f[i][2])] :
     f \in SeqsUpTo(Dates \X Categories, MaxPosts)}

\* a document of the documented shape {posts: [...]}
PostsDocument(items) == [json |-> "object", hasPosts |-> TRUE, posts |-> items]

\* the body {} : valid JSON without a posts member
EmptyObjectDocument == [json |-> "object", hasPosts |-> FALSE, posts |-> <<>>]

\* the body null : valid JSON that is no object
NullDocument == [json |-> "null", hasPosts |-> FALSE, posts |-> <<>>]

Documents ==
  {PostsDocument(items) : items \in TextCollections \cup MetaCollections}
    \cup {EmptyObjectDocument, NullDocument}

\* how a posts request can end: the fetch rejects, the status is not OK,
\* the body is not JSON, or the body is the document
FetchOutcomes == {"networkError", "http500", "unparseable", "ok"}

----------------------------------------------------------------------------
(* fetchPosts *)

\* the fallback post of the catch block.  Its title and body are cut to their
\* katakana words ("エラー" of the title, "データ" of either draft's body): the
\* rest of the two sentences is outside the characters a string here can hold
ErrorPost ==
  [id |-> 1,
   title |-> <<"エ", "ラ", "ー">>,
   body |-> <<"デ", "ー", "タ">>,
   date |-> NowISO,
   author |-> "システム",
   category |-> "エラー"]

\* fetchThrows without the response.ok test of line 250
fetchThrowsIgnoringStatus(outcome, doc) ==
  \/ outcome \in {"networkError", "unparseable"}
  \/ doc.json = "null"

\* whether the try block of fetchPosts throws: fetch rejects, !response.ok,
\* response.json() rejects, or data is null and data.posts is a TypeError
fetchThrows(outcome, doc) ==
  \/ outcome \in {"networkError", "http500", "unparseable"}
  \/ doc.json = "null"

\* the value fetchPosts leaves in posts
fetchPosts(outcome, doc) ==
  IF fetchThrows(outcome, doc) THEN JsArray(<<ErrorPost>>)
  ELSE IF doc.hasPosts THEN JsArray(doc.posts)
  ELSE JsUndefined

----------------------------------------------------------------------------
(* Rendering the listing *)

\* the <article> renderPosts builds for one post
Article(post) ==
  [postId |-> post.id, title |-> post.title, category |-> post.category,
   author |-> post.author, body |-> post.body, datetime |-> post.date,
   dateText |-> formatDate(post.date), readMore |-> post.id]

\* innerHTML of .blog-posts: what kind of markup it holds, and the articles
Html(kind, articles) == [kind |-> kind, articles |-> articles]

\* the markup of the page before any script wrote to the container
StaticHtml == Html("static", <<>>)

\* posts.map(article template).join("")
postsHTML(list) == [i \in 1..Len(list) |-> Article(list[i])]

\* renderPosts of the full draft: postsHTML || "<p>投稿がありません。</p>"
renderPostsFull(list) ==
  IF postsHTML(list) = <<>> THEN Html("placeholder", <<>>)
  ELSE Html("articles", postsHTML(list))

\* renderPosts of the simple draft: innerHTML = postsHTML
renderPostsSimple(list) ==
  IF postsHTML(list) = <<>> THEN Html("empty", <<>>)
  ELSE Html("articles", postsHTML(list))

renderPosts(ver, list) ==
  IF ver = "full" THEN renderPostsFull(list) ELSE renderPostsSimple(list)

\* renderFilteredPosts of the simple draft
renderFilteredPosts(list) ==
  IF Len(list) = 0 THEN Html("noResults", <<>>) ELSE renderPostsSimple(list)

\* handleError of the simple draft: the error message with a reload button
handleError == Html("errorMessage", <<>>)

\* element.insertAdjacentHTML("beforeend", html): the markup is added after
\* what the element holds
insertAdjacentHTML(old, html) == Html(html.kind, old.articles \o html.articles)

\* element.innerHTML = html: the markup replaces what the element holds
setInnerHTML(old, html) == html

----------------------------------------------------------------------------
(* Category filter, search and sort *)

\* categoryMatches comparing without regard to case
categoryMatchesAnyCase(post, category) ==
  LET fold(c) == IF c = "Tech" THEN "tech" ELSE c
  IN fold(post.category) = fold(category)

\* the predicate of filterByCategory's filter
categoryMatches(post, category) == post.category = category

\* filterByCategory: the posts it hands to renderPosts
filterByCategory(list, category) ==
  IF category = "all" THEN list
  ELSE FilterSeq(list, [i \in 1..Len(list) |-> categoryMatches(list[i], category)])

\* searchMatches without toLowerCase on the title and the body
searchMatchesCaseSensitive(post, term) ==
  \/ includes(post.title, term)
  \/ includes(post.body, term)

\* the predicate of the search filter; term is already lower-cased
searchMatches(post, term) ==
  \/ includes(toLowerCase(post.title), term)
  \/ includes(toLowerCase(post.body), term)

\* the search listener / filterAndRenderPosts: the posts that are rendered
searchPosts(list, value) ==
  FilterSeq(list, [i \in 1..Len(list) |-> searchMatches(list[i], toLowerCase(value))])

\* compareDates that ignores the sort order
compareDatesAscending(a, b, order) == DateValue(a.date) - DateValue(b.date)

\* the comparator of sortPosts
compareDates(a, b, order) ==
  IF order = "newest" THEN DateValue(b.date) - DateValue(a.date)
  ELSE DateValue(a.date) - DateValue(b.date)

\* one step of a stable sort: x goes before the first element that must follow it
RECURSIVE InsertSorted(_, _, _)
InsertSorted(sorted, x, order) ==
  IF sorted = <<>> THEN <<x>>
  ELSE IF compareDates(Head(sorted), x, order) > 0 THEN <<x>> \o sorted
  ELSE <<Head(sorted)>> \o InsertSorted(Tail(sorted), x, order)

\* Array.prototype.sort (stable) on a copy of the array
RECURSIVE SortInto(_, _, _)
SortInto(sorted, rest, order) ==
  IF rest = <<>> THEN sorted
  ELSE SortInto(InsertSorted(sorted, Head(rest), order), Tail(rest), order)

\* sortPosts: the posts it hands to renderPosts
sortPosts(list, order) == SortInto(<<>>, list, order)

\* initializeCategories: new Set(posts.map(post => post.category))
\* setupCategoryFilter: the option values of the select it builds, "all" and
\* one option per category
setupCategoryFilter(cats) == {"all"} \cup cats

\* initializeCategories keeping the category of the first post only
initializeCategoriesFirstOnly(list) ==
  IF list = <<>> THEN {} ELSE {list[1].category}

\* the store after a sortPosts that sorts this.#state.posts itself
storeAfterSortInPlace(list, order) == sortPosts(list, order)

\* the store after sortPosts: sort() is called on the copy [...posts], so the
\* store keeps its order
storeAfterSort(list, order) == list

initializeCategories(list) == {list[i].category : i \in 1..Len(list)}

----------------------------------------------------------------------------
(* The detail view (simple draft) *)

\* what console.error received: the catch block that logged, and the error
Log(site, error) == [site |-> site, error |-> error]

NoLog == Log("", "")

\* this.document of a BlogPostManager: the constructor sets posts and
\* currentPost only, so the property is undefined
thisDocument == "undefined"

Comments == {[name |-> "A", body |-> "B", email |-> "c@d.com"]}

CommentLists == SeqsUpTo(Comments, MaxComments)

\* how a comment request can end: the fetch rejects, the body is not JSON,
\* the body is JSON but no array, or the body is a comment list
CommentOutcomes == {"networkError", "unparseable", "notAList", "ok"}

\* ids a caller can pass to showPostDetail: the last one is the id of no post
RequestedIds == 1..(MaxPosts + 1)

\* this.posts.find(p => p.id === postId): the index of the first match, 0 if none
find(list, postId) ==
  IF \E i \in 1..Len(list) : list[i].id = postId
  THEN CHOOSE i \in 1..Len(list) :
         /\ list[i].id = postId
         /\ \A j \in 1..(i - 1) : list[j].id # postId
  ELSE 0

\* showPostDetail that returns without reporting a post it cannot find
showPostDetailSilent(value, postId) ==
  IF value.type # "array" \/ find(value.items, postId) = 0
  THEN [index |-> 0, issued |-> FALSE, logged |-> NoLog]
  ELSE [index |-> find(value.items, postId), issued |-> TRUE, logged |-> NoLog]

\* showPostDetail up to its await: the post found (index), whether the
\* comment request is issued, and what the catch block logs
showPostDetail(value, postId) ==
  IF value.type # "array"
  THEN [index |-> 0, issued |-> FALSE, logged |-> Log("showPostDetail.catch", "TypeError")]
  ELSE IF find(value.items, postId) = 0
  THEN [index |-> 0, issued |-> FALSE,
        logged |-> Log("showPostDetail.catch", "Error: post not found")]
  ELSE [index |-> find(value.items, postId), issued |-> TRUE, logged |-> NoLog]

\* renderComments: one block per comment
renderComments(comments) ==
  [i \in 1..Len(comments) |->
     [name |-> comments[i].name, body |-> comments[i].body, email |-> comments[i].email]]

\* the modal element renderPostsDetail builds
Modal(post, comments) ==
  [title |-> post.title, content |-> post.body, count |-> Len(comments),
   comments |-> renderComments(comments)]

\* renderPostsDetail: whether it throws, and the modals attached afterwards.
\* Its first statement reads this.document.createElement
renderPostsDetail(post, outcome, comments, attached) ==
  IF thisDocument = "undefined" THEN [threw |-> TRUE, modals |-> attached]
  ELSE IF outcome = "notAList" THEN [threw |-> TRUE, modals |-> attached]
  ELSE [threw |-> FALSE, modals |-> Append(attached, Modal(post, comments))]

\* showPostDetailSettled without its try/catch
showPostDetailSettledUncaught(post, outcome, comments, attached) ==
  IF outcome \in {"networkError", "unparseable"}
       \/ renderPostsDetail(post, outcome, comments, attached).threw
  THEN [modals |-> attached, threw |-> TRUE, logged |-> NoLog]
  ELSE [modals |-> renderPostsDetail(post, outcome, comments, attached).modals,
        threw |-> FALSE, logged |-> NoLog]

\* showPostDetail after its await: the modals attached, what the catch block
\* logs, and whether an exception leaves the method
showPostDetailSettled(post, outcome, comments, attached) ==
  IF outcome = "networkError"
  THEN [modals |-> attached, threw |-> FALSE,
        logged |-> Log("showPostDetail.catch", "TypeError: fetch failed")]
  ELSE IF outcome = "unparseable"
  THEN [modals |-> attached, threw |-> FALSE,
        logged |-> Log("showPostDetail.catch", "SyntaxError")]
  ELSE IF renderPostsDetail(post, outcome, comments, attached).threw
  THEN [modals |-> attached, threw |-> FALSE,
        logged |-> Log("showPostDetail.catch", "TypeError")]
  ELSE [modals |-> renderPostsDetail(post, outcome, comments, attached).modals,
        threw |-> FALSE, logged |-> NoLog]

----------------------------------------------------------------------------
(* The header's opacity on scroll *)

\* opacities are held in thousandths: 0.9 is 900
OpacityScale == 1000
\* CONFIG.scroll.headerOpacityMax, SCROLL_CONFIG.headerOpacityMax: 0.9
headerOpacityMax == 900
\* CONFIG.scroll.headerOpacityMin, SCROLL_CONFIG.headerOpacityMin: 0.6
headerOpacityMin == 600
\* CONFIG.scroll.threshold, SCROLL_CONFIG.threshold, in pixels
threshold == 100
\* largest window.scrollY, in pixels
MaxScroll == 120

\* Math.min, Math.max
Min(a, b) == IF a <= b THEN a ELSE b
Max(a, b) == IF a >= b THEN a ELSE b

\* calculateOpacity without the Math.max against headerOpacityMin
calculateOpacityNoFloor(scrollTop) ==
  Min(headerOpacityMax, OpacityScale - (scrollTop * OpacityScale) \div threshold)

\* calculateOpacity: min(max, max(min, 1 - scrollTop / threshold))
calculateOpacity(scrollTop) ==
  Min(headerOpacityMax,
      Max(headerOpacityMin, OpacityScale - (scrollTop * OpacityScale) \div threshold))

\* the header: the scroll position last handled, the opacity calculateOpacity
\* returned for it, and where its background comes from: "css" the style
\* sheet, "rgba" updateHeaderStyle, "reset" resetHeaderStyle
Header(scrollTop, opacity, style) ==
  [scrollTop |-> scrollTop, opacity |-> opacity, style |-> style]

\* the header before any scroll event: no opacity has been computed
StaticHeader == Header(0, 0, "css")

\* the scroll listener: UIController's (full draft) always updates the style,
\* HeaderController's resets it at scrollTop 0
handleScroll(ver, scrollTop) ==
  Header(scrollTop, calculateOpacity(scrollTop),
         IF ver = "full" \/ scrollTop > 0 THEN "rgba" ELSE "reset")

----------------------------------------------------------------------------
(* The page and the contact form *)

\* the elements of the page a script looks up and that a page may lack:
\* .hamburger, .nav, #blog, #contact-form, #submission-status
Elements == {"hamburger", "nav", "blog", "contact-form", "submission-status"}

\* the DOMContentLoaded listeners a page registers, in registration order
Listeners(ver) ==
  IF ver = "full" THEN <<"App.init", "initializeApp", "hamburger">>
  ELSE <<"initializeApp", "hamburger", "blogManager", "contactForm">>

\* a page: the elements present, the DOMContentLoaded listeners still to run,
\* the elements whose listener is registered, the handlers an exception escaped
Page(present, pending, listening, uncaught) ==
  [present |-> present, pending |-> pending, listening |-> listening,
   uncaught |-> uncaught]

\* a page with every element, after its DOMContentLoaded listeners ran
WholePage == Page(Elements, <<>>, {"hamburger", "contact-form"}, {})

\* most fields of the contact form
MaxFields == 2
\* most status timers pending at once
MaxTimers == 2

\* what a user can type into a field
FieldValues == {<<>>, <<" ">>, <<"a">>}

\* String.prototype.trim: white space is dropped at both ends
RECURSIVE trim(_)
trim(text) ==
  IF text = <<>> THEN <<>>
  ELSE IF Head(text) = " " THEN trim(Tail(text))
  ELSE IF text[Len(text)] = " " THEN trim(SubSeq(text, 1, Len(text) - 1))
  ELSE text

\* a field of the form: whether it carries the required attribute, its value
Field(required, value) == [required |-> required, value |-> value]

\* the form: its fields, the text of each field's error span, the class of the
\* status element ("" when it shows nothing), the status timers pending
Form(fields, errors, status, timers) ==
  [fields |-> fields, errors |-> errors, status |-> status, timers |-> timers]

\* a page whose form plays no part
NoForm == Form(<<>>, <<>>, "", 0)

\* the text validateField writes into an error span: "必須項目です"
RequiredMessage == "required"

\* validateField's test without the trim
isValidUntrimmed(field) == field.value # <<>>

\* validateField's test: field.value.trim() !== ""
isValid(field) == trim(field.value) # <<>>

\* validateField: the error span of the field shows the message or nothing
validateField(f, i) ==
  [f EXCEPT !.errors[i] = IF isValid(f.fields[i]) THEN "" ELSE RequiredMessage]

\* index of the first required field that is not valid, 0 if there is none
firstInvalid(f) ==
  IF \E i \in 1..Len(f.fields) : f.fields[i].required /\ ~isValid(f.fields[i])
  THEN CHOOSE i \in 1..Len(f.fields) :
         /\ f.fields[i].required /\ ~isValid(f.fields[i])
         /\ \A j \in 1..(i - 1) : ~(f.fields[j].required /\ ~isValid(f.fields[j]))
  ELSE 0

\* validateForm: whether every required field is valid
validateForm(f) == firstInvalid(f) = 0

\* the error spans after validateForm of the full draft: every() stops at the
\* first field that is not valid
validateFormFull(f) ==
  [f EXCEPT !.errors =
     [i \in 1..Len(f.fields) |->
        IF f.fields[i].required /\ (firstInvalid(f) = 0 \/ i <= firstInvalid(f))
        THEN validateField(f, i).errors[i]
        ELSE f.errors[i]]]

\* the error spans after validateForm of the simple draft: forEach visits
\* every required field
validateFormSimple(f) ==
  [f EXCEPT !.errors =
     [i \in 1..Len(f.fields) |->
        IF f.fields[i].required THEN validateField(f, i).errors[i] ELSE f.errors[i]]]

\* form.reset(): every field returns to its default value, the empty text
reset(f) ==
  [f EXCEPT !.fields = [i \in 1..Len(f.fields) |-> Field(f.fields[i].required, <<>>)]]

\* showStatus when the status element exists: the message is shown and a
\* timer is armed that clears it
showStatus(f, type) == [f EXCEPT !.status = type, !.timers = f.timers + 1]

\* a timer callback that leaves the status element as it is
timerKeepsStatus(f) == [f EXCEPT !.timers = f.timers - 1]

\* the timer callback of showStatus: the text and the type class are cleared
timerClearsStatus(f) == [f EXCEPT !.status = "", !.timers = f.timers - 1]

\* handleSubmit of the full draft: the form afterwards and whether it threw
handleSubmitFull(f, hasStatus) ==
  IF ~validateForm(f)
  THEN [form |-> IF hasStatus THEN showStatus(validateFormFull(f), "error")
                 ELSE validateFormFull(f),
        threw |-> FALSE]
  ELSE [form |-> IF hasStatus THEN reset(showStatus(validateFormFull(f), "success"))
                 ELSE reset(validateFormFull(f)),
        threw |-> FALSE]

\* handleSubmit of the simple draft: a blank required field is only logged;
\* showStatus has no null check of the status element
handleSubmitSimple(f, hasStatus) ==
  IF ~validateForm(f) THEN [form |-> validateFormSimple(f), threw |-> FALSE]
  ELSE IF ~hasStatus THEN [form |-> validateFormSimple(f), threw |-> TRUE]
  ELSE [form |-> reset(showStatus(validateFormSimple(f), "success")), threw |-> FALSE]

handleSubmit(ver, f, hasStatus) ==
  IF ver = "full" THEN handleSubmitFull(f, hasStatus) ELSE handleSubmitSimple(f, hasStatus)

----------------------------------------------------------------------------
(* The state machine *)

\* a handler's run: its name, how its request ended (for a click inside a
\* modal, the element clicked; for a submit, whether the form was valid), the
\* post id and the comment list it was given, what it logged, and whether it
\* threw to its caller
Call(op, outcome, postId, comments, logged, threw) ==
  [op |-> op, outcome |-> outcome, postId |-> postId, comments |-> comments,
   logged |-> logged, threw |-> threw]

\* the state when the DOMContentLoaded handler that builds the manager returns:
\* the constructor called init(), which issued the posts request; in the
\* simple draft the handler called fetchPosts() once more
Init ==
  /\ version \in {"full", "simple"}
  /\ document \in Documents
  /\ fetches = IF version = "full" THEN {"init"} ELSE {"init", "extra"}
  /\ pc = "loading"
  /\ posts = JsArray(<<>>)
  /\ categories = {}
  /\ categoryOptions = {}
  /\ currentFilter = "all"
  /\ sortOrder = "newest"
  /\ searchValue = <<>>
  /\ controls = {}
  /\ container = StaticHtml
  /\ commentRequests = EmptyBag
  /\ modals = <<>>
  /\ lastCall = Call("constructor", "", 0, <<>>, NoLog, FALSE)
  /\ initSteps = <<>>
  /\ renders = 0
  /\ page = WholePage
  /\ form = NoForm
  /\ header = StaticHeader

\* what the catch block of fetchPosts logs
fetchLogged(outcome, doc) ==
  IF ~fetchThrows(outcome, doc) THEN NoLog
  ELSE IF outcome = "networkError" THEN Log("fetchPosts.catch", "TypeError: fetch failed")
  ELSE IF outcome = "http500" THEN Log("fetchPosts.catch", "Error: response not ok")
  ELSE IF outcome = "unparseable" THEN Log("fetchPosts.catch", "SyntaxError")
  ELSE Log("fetchPosts.catch", "TypeError")

\* a posts request settles and fetchPosts runs to its end
FetchPostsSettle(request, outcome) ==
  /\ page.pending = <<>>
  /\ pc # "fetched"
  /\ request \in fetches
  /\ fetches' = fetches \ {request}
  /\ posts' = fetchPosts(outcome, document)
  /\ pc' = IF request = "init" THEN "fetched" ELSE pc
  /\ initSteps' = IF request = "init" THEN <<"fetchPosts">> ELSE initSteps
  /\ lastCall' = Call("fetchPosts", outcome, 0, <<>>, fetchLogged(outcome, document), FALSE)
  /\ UNCHANGED <<aside, version, document, categories, categoryOptions, currentFilter, sortOrder, searchValue,
                 controls, container, commentRequests, modals>>

\* the calls init() makes after its await, in order, up to the first that throws
initCalls(ver, value) ==
  IF ver = "full"
  THEN IF value.type # "array" THEN <<"initializeCategories">>
       ELSE <<"initializeCategories", "setupUI", "renderPosts">>
  ELSE IF value.type # "array" THEN <<"renderPosts">>
       ELSE <<"renderPosts", "addSearchFeature">>

\* init() of the full draft after the await: initializeCategories, setupUI,
\* renderPosts; a throw goes to utils.handleError
InitFull ==
  /\ pc = "fetched"
  /\ version = "full"
  /\ initSteps' = initSteps \o initCalls(version, posts)
  /\ IF posts.type # "array"
     THEN /\ pc' = "failed"
          /\ lastCall' = Call("init", "", 0, <<>>, Log("utils.handleError", "TypeError"), FALSE)
          /\ UNCHANGED <<categories, categoryOptions, controls, container>>
     ELSE /\ pc' = "ready"
          /\ categories' = initializeCategories(posts.items)
          /\ categoryOptions' = setupCategoryFilter(initializeCategories(posts.items))
          /\ controls' = {"search", "sort", "category"}
          /\ container' = setInnerHTML(container, renderPosts(version, posts.items))
          /\ lastCall' = Call("init", "", 0, <<>>, NoLog, FALSE)
  /\ UNCHANGED <<aside, version, document, fetches, posts, currentFilter, sortOrder, searchValue,
                 commentRequests, modals>>

\* init() of the simple draft after the await: renderPosts, addSearchFeature;
\* a throw (posts is no array, or the page has no #blog for addSearchFeature)
\* is logged and goes to this.handleError
InitSimple ==
  /\ pc = "fetched"
  /\ version = "simple"
  /\ initSteps' = initSteps \o initCalls(version, posts)
  /\ IF posts.type # "array"
     THEN /\ pc' = "failed"
          /\ container' = setInnerHTML(container, handleError)
          /\ lastCall' = Call("init", "", 0, <<>>, Log("init.catch", "TypeError"), FALSE)
          /\ UNCHANGED controls
     ELSE IF "blog" \notin page.present
     THEN /\ pc' = "failed"
          /\ container' = setInnerHTML(setInnerHTML(container, renderPosts(version, posts.items)),
                                       handleError)
          /\ lastCall' = Call("init", "", 0, <<>>, Log("init.catch", "TypeError"), FALSE)
          /\ UNCHANGED controls
     ELSE /\ pc' = "ready"
          /\ controls' = {"search"}
          /\ container' = setInnerHTML(container, renderPosts(version, posts.items))
          /\ lastCall' = Call("init", "", 0, <<>>, NoLog, FALSE)
  /\ UNCHANGED <<aside, version, document, fetches, posts, categories, categoryOptions, currentFilter, sortOrder,
                 searchValue, commentRequests, modals>>

\* change event of the category select: filterByCategory(e.target.value)
CategoryChange(category) ==
  /\ pc = "ready"
  /\ "category" \in controls
  /\ category \in categoryOptions
  /\ currentFilter' = category
  /\ container' = setInnerHTML(container, renderPosts(version, filterByCategory(posts.items, category)))
  /\ lastCall' = Call("filterByCategory", "", 0, <<>>, NoLog, FALSE)
  /\ UNCHANGED <<aside, initSteps, version, document, fetches, pc, posts, categories, categoryOptions, sortOrder, searchValue,
                 controls, commentRequests, modals>>

\* input event of the search input
SearchInput(value) ==
  /\ pc = "ready"
  /\ "search" \in controls
  /\ searchValue' = value
  /\ IF posts.type # "array"
     THEN /\ lastCall' = Call("search", "", 0, <<>>, NoLog, TRUE)
          /\ UNCHANGED container
     ELSE /\ lastCall' = Call("search", "", 0, <<>>, NoLog, FALSE)
          /\ container' = setInnerHTML(container,
                            IF version = "full"
                            THEN renderPosts(version, searchPosts(posts.items, value))
                            ELSE renderFilteredPosts(searchPosts(posts.items, value)))
  /\ UNCHANGED <<aside, initSteps, version, document, fetches, pc, posts, categories, categoryOptions, currentFilter, sortOrder,
                 controls, commentRequests, modals>>

\* change event of the sort select: sortOrder = e.target.value; sortPosts()
SortChange(order) ==
  /\ pc = "ready"
  /\ "sort" \in controls
  /\ sortOrder' = order
  /\ container' = setInnerHTML(container, renderPosts(version, sortPosts(posts.items, order)))
  /\ posts' = JsArray(storeAfterSort(posts.items, order))
  /\ lastCall' = Call("sortPosts", "", 0, <<>>, NoLog, FALSE)
  /\ UNCHANGED <<aside, initSteps, version, document, fetches, pc, categories, categoryOptions, currentFilter,
                 searchValue, controls, commentRequests, modals>>

\* a click on the read-more button of the k-th article of the listing.  The
\* only listener for it is the one setupDetailView registers, and no code
\* calls setupDetailView: "detail" never enters controls.  The listener itself
\* starts with e.target.contains(".read-more-btn"), a TypeError
ReadMoreClick(k) ==
  /\ pc # "fetched"
  /\ container.kind = "articles"
  /\ k \in 1..Len(container.articles)
  /\ lastCall' = Call("readMoreClick", "", container.articles[k].readMore, <<>>, NoLog,
                      "detail" \in controls)
  /\ UNCHANGED <<aside, initSteps, version, document, fetches, pc, posts, categories,
                 categoryOptions, currentFilter, sortOrder, searchValue, controls,
                 container, commentRequests, modals>>

\* a comment request in flight: the id in its URL and the post the call found
CommentRequest(postId, post) == SetToBag({[postId |-> postId, post |-> post]})

\* showPostDetail(postId) up to its await
ShowPostDetail(postId) ==
  /\ version = "simple"
  /\ pc # "fetched"
  /\ LET r == showPostDetail(posts, postId) IN
       /\ r.issued => BagCardinality(commentRequests) < MaxPending
       /\ commentRequests' =
            IF r.issued
            THEN commentRequests (+) CommentRequest(postId, posts.items[r.index])
            ELSE commentRequests
       /\ lastCall' = Call("showPostDetail", "", postId, <<>>, r.logged, FALSE)
  /\ UNCHANGED <<aside, initSteps, version, document, fetches, pc, posts, categories, categoryOptions, currentFilter, sortOrder,
                 searchValue, controls, container, modals>>

\* a comment request settles and showPostDetail runs to its end
CommentsSettle(request, outcome, comments) ==
  /\ pc # "fetched"
  /\ BagIn(request, commentRequests)
  /\ outcome = "ok" \/ comments = <<>>
  /\ LET r == showPostDetailSettled(request.post, outcome, comments, modals) IN
       /\ modals' = r.modals
       /\ lastCall' = Call("showPostDetail.settled", outcome, request.postId, comments,
                           r.logged, r.threw)
  /\ commentRequests' = commentRequests (-) CommentRequest(request.postId, request.post)
  /\ UNCHANGED <<aside, initSteps, version, document, fetches, pc, posts, categories, categoryOptions, currentFilter, sortOrder,
                 searchValue, controls, container>>

Next ==
  \/ \E request \in {"init", "extra"}, outcome \in FetchOutcomes :
       FetchPostsSettle(request, outcome)
  \/ InitFull
  \/ InitSimple
  \/ \E category \in {"all"} \cup Categories \cup {"エラー"} : CategoryChange(category)
  \/ \E value \in Terms : SearchInput(value)
  \/ \E order \in {"newest", "oldest"} : SortChange(order)
  \/ \E k \in 1..MaxPosts : ReadMoreClick(k)
  \/ \E postId \in RequestedIds : ShowPostDetail(postId)
  \/ \E request \in BagToSet(commentRequests), outcome \in CommentOutcomes,
          comments \in CommentLists :
       CommentsSettle(request, outcome, comments)

Spec == Init /\ [][Next]_vars

----------------------------------------------------------------------------
(* The modal's listeners (setupModalEvents) on modals given to it *)

\* most modals attached when the listeners are exercised
MaxModals == 2

\* the elements of a modal a click can land on: the .post-detail-modal element
\* itself (the backdrop), its .modal-content, the .close-modal button and the
\* article inside the content
ClickTargets == {"modal", "modal-content", "close-modal", "post-detail"}

\* modal.remove(): the i-th attached modal leaves document.body
remove(attached, i) ==
  [k \in 1..(Len(attached) - 1) |-> IF k < i THEN attached[k] ELSE attached[k + 1]]

\* the modal's click listener without its e.target === modal test
modalClickAnywhere(attached, i, target) == remove(attached, i)

\* a click on target inside the i-th modal: the button's listener removes the
\* modal, and the modal's own listener removes it when the target is the modal
modalClick(attached, i, target) ==
  IF target = "close-modal" THEN remove(attached, i)
  ELSE IF target = "modal" THEN remove(attached, i)
  ELSE attached

\* documents of one post, for exercising the detail view alone
DetailDocuments ==
  {PostsDocument(<<Post(1, title, body, "2024-01-01", "Tech")>>) :
     title \in Titles, body \in Bodies}

\* the modals renderPostsDetail would build for the stored posts
StoredModals(list) ==
  {Modal(list[i], comments) : i \in 1..Len(list), comments \in CommentLists}

\* a loaded simple-draft manager, and modals on which setupModalEvents was
\* called attached to document.body
InitModal ==
  /\ version = "simple"
  /\ document \in DetailDocuments
  /\ fetches = {}
  /\ pc = "ready"
  /\ posts = JsArray(document.posts)
  /\ categories = {}
  /\ categoryOptions = {}
  /\ currentFilter = "all"
  /\ sortOrder = "newest"
  /\ searchValue = <<>>
  /\ controls = {"search"}
  /\ container = renderPosts(version, document.posts)
  /\ commentRequests = EmptyBag
  /\ modals \in SeqsUpTo(StoredModals(document.posts), MaxModals)
  /\ lastCall = Call("setupModalEvents", "", 0, <<>>, NoLog, FALSE)
  /\ initSteps = <<"fetchPosts", "renderPosts", "addSearchFeature">>
  /\ renders = 0
  /\ page = WholePage
  /\ form = NoForm
  /\ header = StaticHeader

\* a click inside the i-th attached modal
ModalClick(i, target) ==
  /\ i \in 1..Len(modals)
  /\ modals' = modalClick(modals, i, target)
  /\ lastCall' = Call("modalClick", target, 0, <<>>, NoLog, FALSE)
  /\ UNCHANGED <<aside, initSteps, version, document, fetches, pc, posts, categories, categoryOptions,
                 currentFilter, sortOrder, searchValue, controls, container,
                 commentRequests>>

NextModal ==
  \/ \E i \in 1..MaxModals, target \in ClickTargets : ModalClick(i, target)
  \/ \E postId \in RequestedIds : ShowPostDetail(postId)
  \/ \E request \in BagToSet(commentRequests), outcome \in CommentOutcomes,
          comments \in CommentLists :
       CommentsSettle(request, outcome, comments)

SpecModal == InitModal /\ [][NextModal]_vars

----------------------------------------------------------------------------
(* renderPosts called directly, several times on the same sequence *)

\* most renderPosts calls made in a row
MaxRenders == 2

\* a manager whose store holds a collection, before anything was rendered
InitRender ==
  /\ version \in {"full", "simple"}
  /\ document \in {d \in Documents : d.json = "object" /\ d.hasPosts}
  /\ fetches = {}
  /\ pc = "ready"
  /\ posts = JsArray(document.posts)
  /\ categories = {}
  /\ categoryOptions = {}
  /\ currentFilter = "all"
  /\ sortOrder = "newest"
  /\ searchValue = <<>>
  /\ controls = {}
  /\ container = StaticHtml
  /\ commentRequests = EmptyBag
  /\ modals = <<>>
  /\ lastCall = Call("constructor", "", 0, <<>>, NoLog, FALSE)
  /\ initSteps = <<>>
  /\ renders = 0
  /\ page = WholePage
  /\ form = NoForm
  /\ header = StaticHeader

\* renderPosts(posts) on the stored sequence
RenderPosts ==
  /\ renders < MaxRenders
  /\ renders' = renders + 1
  /\ container' = setInnerHTML(container, renderPosts(version, posts.items))
  /\ lastCall' = Call("renderPosts", "", 0, <<>>, NoLog, FALSE)
  /\ UNCHANGED <<page, form, header, initSteps, version, document, fetches, pc, posts, categories, categoryOptions,
                 currentFilter, sortOrder, searchValue, controls, commentRequests, modals>>

NextRender == RenderPosts

SpecRender == InitRender /\ [][NextRender]_vars

----------------------------------------------------------------------------
(* The contact form *)

\* what the blog listing and the detail view hold
blog == <<renders, initSteps, version, document, fetches, pc, posts, categories, categoryOptions,
          currentFilter, sortOrder, searchValue, controls, container, commentRequests,
          modals>>

\* the blog part of a page whose manager has not been built yet
BlogNotStarted ==
  /\ fetches = {}
  /\ pc = "loading"
  /\ posts = JsArray(<<>>)
  /\ categories = {}
  /\ categoryOptions = {}
  /\ currentFilter = "all"
  /\ sortOrder = "newest"
  /\ searchValue = <<>>
  /\ controls = {}
  /\ container = StaticHtml
  /\ commentRequests = EmptyBag
  /\ modals = <<>>
  /\ initSteps = <<>>
  /\ renders = 0
  /\ header = StaticHeader

\* the forms a page can hold: each field required or not, with any value,
\* error spans empty, nothing in the status element
Forms(n) ==
  {Form(fields, [i \in 1..n |-> ""], "", 0) :
     fields \in [1..n -> {Field(required, value) :
                             required \in BOOLEAN, value \in FieldValues}]}

\* a page with the form and its status element; ContactForm's constructor
\* has registered the submit listener
InitForm ==
  /\ version \in {"full", "simple"}
  /\ document = NullDocument
  /\ BlogNotStarted
  /\ page = WholePage
  /\ form \in Forms(MaxFields)
  /\ lastCall = Call("constructor", "", 0, <<>>, NoLog, FALSE)

\* the user types into the i-th field
FieldInput(i, value) ==
  /\ "contact-form" \in page.present
  /\ i \in 1..Len(form.fields)
  /\ form' = [form EXCEPT !.fields[i].value = value]
  /\ lastCall' = Call("fieldInput", "", 0, <<>>, NoLog, FALSE)
  /\ UNCHANGED <<blog, page, header>>

\* blur event of the i-th field: the listener setupValidation of the full
\* draft registers on the required fields
FieldBlur(i) ==
  /\ version = "full"
  /\ "contact-form" \in page.listening
  /\ i \in 1..Len(form.fields)
  /\ form.fields[i].required
  /\ form' = validateField(form, i)
  /\ lastCall' = Call("validateField", "", 0, <<>>, NoLog, FALSE)
  /\ UNCHANGED <<blog, page, header>>

\* submit event of the form: handleSubmit
Submit ==
  /\ page.pending = <<>>
  /\ "contact-form" \in page.listening
  /\ form.timers < MaxTimers
  /\ LET r == handleSubmit(version, form, "submission-status" \in page.present) IN
       /\ form' = r.form
       /\ page' = [page EXCEPT !.uncaught =
                     IF r.threw THEN @ \cup {"handleSubmit"} ELSE @]
       /\ lastCall' = Call("handleSubmit", IF validateForm(form) THEN "valid" ELSE "blocked",
                           0, <<>>, NoLog, r.threw)
  /\ UNCHANGED <<blog, header>>

\* a status timer fires: the callback of showStatus clears the status element
StatusTimeout ==
  /\ form.timers > 0
  /\ form' = timerClearsStatus(form)
  /\ lastCall' = Call("statusTimeout", "", 0, <<>>, NoLog, FALSE)
  /\ UNCHANGED <<blog, page, header>>

NextForm ==
  \/ \E i \in 1..MaxFields, value \in FieldValues : FieldInput(i, value)
  \/ \E i \in 1..MaxFields : FieldBlur(i)
  \/ Submit
  \/ StatusTimeout

SpecForm == InitForm /\ [][NextForm]_vars

\* the contact form when every armed timer fires: setTimeout callbacks are run
\* by the event loop once their delay has passed
SpecFormTimers == InitForm /\ [][NextForm]_vars /\ WF_vars(StatusTimeout)

----------------------------------------------------------------------------
(* Page start-up on pages that lack elements *)

\* the documents served while start-up is exercised
PageDocuments ==
  {PostsDocument(<<Post(1, <<"B">>, <<"A">>, "2024-01-01", "Tech")>>), EmptyObjectDocument}

\* a form of one required field, blank or filled
PageForms ==
  {Form(<<Field(TRUE, value)>>, <<"">>, "", 0) : value \in {<<>>, <<"a">>}}

\* a page with any of its elements missing, when DOMContentLoaded is dispatched
InitPage ==
  /\ version \in {"full", "simple"}
  /\ document \in PageDocuments
  /\ BlogNotStarted
  /\ \E present \in SUBSET Elements : page = Page(present, Listeners(version), {}, {})
  /\ form \in PageForms
  /\ lastCall = Call("DOMContentLoaded", "", 0, <<>>, NoLog, FALSE)

\* the listener App.init registered (full draft): new UIController, new
\* BlogPostManager, new ContactForm inside a try/catch; ContactForm's
\* constructor registers the submit listener if the form exists
AppInit ==
  /\ version = "full"
  /\ page.pending # <<>>
  /\ Head(page.pending) = "App.init"
  /\ fetches' = {"init"}
  /\ page' = [page EXCEPT !.pending = Tail(@),
                          !.listening = IF "contact-form" \in page.present
                                        THEN @ \cup {"contact-form"} ELSE @]
  /\ lastCall' = Call("App.init", "", 0, <<>>, NoLog, FALSE)
  /\ UNCHANGED <<form, header, renders, initSteps, version, document, pc, posts, categories,
                 categoryOptions, currentFilter, sortOrder, searchValue, controls,
                 container, commentRequests, modals>>

\* initializeApp: HeaderController and SmoothScroll test for their elements;
\* MobileMenuController is defined nowhere, and the ReferenceError is caught
\* and logged
InitializeApp ==
  /\ page.pending # <<>>
  /\ Head(page.pending) = "initializeApp"
  /\ page' = [page EXCEPT !.pending = Tail(@)]
  /\ lastCall' = Call("initializeApp", "", 0, <<>>,
                      Log("initializeApp.catch", "ReferenceError"), FALSE)
  /\ UNCHANGED <<blog, form, header>>

\* the listener of lines 1117-1125: hamburger.addEventListener with no test
\* that the element exists
HamburgerReady ==
  /\ page.pending # <<>>
  /\ Head(page.pending) = "hamburger"
  /\ IF "hamburger" \in page.present
     THEN /\ page' = [page EXCEPT !.pending = Tail(@), !.listening = @ \cup {"hamburger"}]
          /\ lastCall' = Call("hamburgerReady", "", 0, <<>>, NoLog, FALSE)
     ELSE /\ page' = [page EXCEPT !.pending = Tail(@), !.uncaught = @ \cup {"hamburgerReady"}]
          /\ lastCall' = Call("hamburgerReady", "", 0, <<>>, NoLog, TRUE)
  /\ UNCHANGED <<blog, form, header>>

\* the listener of lines 1350-1353 (simple draft): the constructor calls
\* init(), and the listener calls fetchPosts() once more
BlogManagerReady ==
  /\ version = "simple"
  /\ page.pending # <<>>
  /\ Head(page.pending) = "blogManager"
  /\ fetches' = {"init", "extra"}
  /\ page' = [page EXCEPT !.pending = Tail(@)]
  /\ lastCall' = Call("blogManagerReady", "", 0, <<>>, NoLog, FALSE)
  /\ UNCHANGED <<form, header, renders, initSteps, version, document, pc, posts, categories,
                 categoryOptions, currentFilter, sortOrder, searchValue, controls,
                 container, commentRequests, modals>>

\* the listener of lines 1431-1433 (simple draft): the constructor calls
\* this.form.addEventListener with no test that the form exists
ContactFormReady ==
  /\ version = "simple"
  /\ page.pending # <<>>
  /\ Head(page.pending) = "contactForm"
  /\ IF "contact-form" \in page.present
     THEN /\ page' = [page EXCEPT !.pending = Tail(@), !.listening = @ \cup {"contact-form"}]
          /\ lastCall' = Call("contactFormReady", "", 0, <<>>, NoLog, FALSE)
     ELSE /\ page' = [page EXCEPT !.pending = Tail(@), !.uncaught = @ \cup {"contactFormReady"}]
          /\ lastCall' = Call("contactFormReady", "", 0, <<>>, NoLog, TRUE)
  /\ UNCHANGED <<blog, form, header>>

\* click on the hamburger: both class lists are toggled, with no test that
\* .nav exists
HamburgerClick ==
  /\ page.pending = <<>>
  /\ "hamburger" \in page.listening
  /\ IF "nav" \in page.present
     THEN /\ lastCall' = Call("hamburgerClick", "", 0, <<>>, NoLog, FALSE)
          /\ UNCHANGED page
     ELSE /\ page' = [page EXCEPT !.uncaught = @ \cup {"hamburgerClick"}]
          /\ lastCall' = Call("hamburgerClick", "", 0, <<>>, NoLog, TRUE)
  /\ UNCHANGED <<blog, form, header>>

NextPage ==
  \/ AppInit
  \/ InitializeApp
  \/ HamburgerReady
  \/ BlogManagerReady
  \/ ContactFormReady
  \/ HamburgerClick
  \/ Submit
  \/ StatusTimeout
  \/ \E request \in {"init", "extra"}, outcome \in FetchOutcomes :
       FetchPostsSettle(request, outcome)
  \/ InitFull
  \/ InitSimple

SpecPage == InitPage /\ [][NextPage]_vars

----------------------------------------------------------------------------
(* Scrolling a page that has a .header *)

\* a page with its header, not scrolled yet
InitScroll ==
  /\ version \in {"full", "simple"}
  /\ document = NullDocument
  /\ BlogNotStarted
  /\ page = WholePage
  /\ form = NoForm
  /\ lastCall = Call("constructor", "", 0, <<>>, NoLog, FALSE)

\* scroll event with window.scrollY = scrollTop
Scroll(scrollTop) ==
  /\ header' = handleScroll(version, scrollTop)
  /\ lastCall' = Call("handleScroll", "", 0, <<>>, NoLog, FALSE)
  /\ UNCHANGED <<blog, page, form>>

NextScroll == \E scrollTop \in 0..MaxScroll : Scroll(scrollTop)

SpecScroll == InitScroll /\ [][NextScroll]_vars

----------------------------------------------------------------------------
(* What the claims speak of *)

\* the view's state in the words of the specification
DetailState ==
  IF modals # <<>> THEN "Shown"
  ELSE IF commentRequests # EmptyBag THEN "Loading"
  ELSE "Closed"

\* the posts of the store, when the store holds a collection
StoredPosts == posts.items

\* the articles a listing of these posts shows, in order
ArticlesOf(list) == [i \in 1..Len(list) |-> Article(list[i])]

\* the container shows a listing: articles, or a message in place of none
ShowsListing == container.kind \in {"articles", "placeholder", "noResults"}

\* term is a contiguous part of text
IsSubstring(text, term) ==
  \E i \in 0..Len(text), j \in 0..Len(text) : i <= j /\ SubSeq(text, i + 1, j) = term

\* the post is kept by a search for the value typed
KeptBySearch(post, value) ==
  \/ IsSubstring(toLowerCase(post.title), toLowerCase(value))
  \/ IsSubstring(toLowerCase(post.body), toLowerCase(value))

\* the post is kept by the category selected
KeptByCategory(post, category) == category = "all" \/ post.category = category

\* view[k] = list[f[k]] is list ordered by date as order asks, ties in list's order
OrdersByDate(f, list, order) ==
  /\ \A k \in DOMAIN f, l \in DOMAIN f : k # l => f[k] # f[l]
  /\ \A k \in DOMAIN f, l \in DOMAIN f :
       k < l =>
         /\ order = "newest" => DateValue(list[f[k]].date) >= DateValue(list[f[l]].date)
         /\ order # "newest" => DateValue(list[f[k]].date) <= DateValue(list[f[l]].date)
         /\ DateValue(list[f[k]].date) = DateValue(list[f[l]].date) => f[k] < f[l]

\* the view category, search value and sort order select together
CombinedView(list, category, value, order) ==
  LET kept == SelectSeq(SelectSeq(list, LAMBDA p : KeptByCategory(p, category)),
                        LAMBDA p : KeptBySearch(p, value))
      f == CHOOSE g \in [1..Len(kept) -> 1..Len(kept)] : OrdersByDate(g, kept, order)
  IN [k \in 1..Len(kept) |-> kept[f[k]]]

\* the post is the fallback post the specification describes
IsSentinel(post) ==
  /\ post.id = 1
  /\ post.author = "システム"
  /\ post.category = "エラー"
  /\ post.title = <<"エ", "ラ", "ー">>

----------------------------------------------------------------------------
(* C1 .. C10 *)

\* C1: after a category-change, search-input or sort-change event on a loaded
\* manager the listing is the stored collection restricted to the selected
\* category and to the search term and ordered by the selected sort order, all
\* three together.
C1_FilterSearchSortCompose ==
  (version = "full" /\ lastCall.op \in {"filterByCategory", "search", "sortPosts"})
    => /\ ShowsListing
       /\ container.articles =
            ArticlesOf(CombinedView(StoredPosts, currentFilter, searchValue, sortOrder))

\* C2: when the comment request of showPostDetail for a stored post succeeds
\* with a comment list, a modal is attached that holds the post's title and body
\* and one comment block (name, body, email) per fetched comment.
C2_DetailShown ==
  (lastCall.op = "showPostDetail.settled" /\ lastCall.outcome = "ok")
    => /\ DetailState = "Shown"
       /\ \E i \in 1..Len(StoredPosts) :
            /\ StoredPosts[i].id = lastCall.postId
            /\ modals[Len(modals)].title = StoredPosts[i].title
            /\ modals[Len(modals)].content = StoredPosts[i].body
       /\ modals[Len(modals)].comments = lastCall.comments

\* C3: when the posts request fails with a network error or a non-OK status,
\* fetchPosts does not throw and leaves exactly one post in the store: id 1,
\* author "システム", category "エラー", a title that tells of the failure.
C3_LoadFailureFallback ==
  (lastCall.op = "fetchPosts" /\ lastCall.outcome \in {"networkError", "http500"})
    => /\ ~lastCall.threw
       /\ posts.type = "array"
       /\ Len(StoredPosts) = 1
       /\ IsSentinel(StoredPosts[1])

C3_Witness ==
  /\ lastCall.op = "fetchPosts"
  /\ lastCall.outcome = "http500"
  /\ document.hasPosts
  /\ Len(document.posts) = 2
  /\ Len(StoredPosts) = 1
  /\ StoredPosts[1].category = "エラー"

\* C4: filterByCategory(c) renders, for c other than "all", exactly the stored
\* posts whose category equals c case-sensitively, in stored order, and for
\* "all" the whole stored collection.
C4_CategoryFilterExact ==
  lastCall.op = "filterByCategory"
    => /\ ShowsListing
       /\ currentFilter = "all" => container.articles = ArticlesOf(StoredPosts)
       /\ currentFilter # "all" =>
            container.articles =
              ArticlesOf(SelectSeq(StoredPosts, LAMBDA p : p.category = currentFilter))

C4_Witness ==
  /\ lastCall.op = "filterByCategory"
  /\ currentFilter = "tech"
  /\ Len(StoredPosts) = 2
  /\ StoredPosts[1].category = "Tech"
  /\ container.articles = <<Article(StoredPosts[2])>>

\* C5: the search input handler renders exactly the stored posts whose
\* lower-cased title or lower-cased body contains the lower-cased term, in
\* stored order; for the empty term that is the whole stored collection.
C5_SearchCaseInsensitive ==
  (lastCall.op = "search" /\ posts.type = "array")
    => /\ ~lastCall.threw
       /\ ShowsListing
       /\ container.articles =
            ArticlesOf(SelectSeq(StoredPosts, LAMBDA p : KeptBySearch(p, searchValue)))
       /\ searchValue = <<>> => container.articles = ArticlesOf(StoredPosts)

C5_Witness ==
  /\ lastCall.op = "search"
  /\ searchValue = <<"a">>
  /\ Len(StoredPosts) = 2
  /\ StoredPosts[1].title = <<"B">>
  /\ StoredPosts[1].body = <<>>
  /\ StoredPosts[2].title = <<"B">>
  /\ StoredPosts[2].body = <<"A">>
  /\ container.articles = <<Article(StoredPosts[2])>>

\* C6: sortPosts renders a permutation of the stored posts, by date descending
\* under "newest" and ascending otherwise, and posts of equal date keep the
\* order they have in the store.
C6_SortStable ==
  lastCall.op = "sortPosts"
    => /\ ShowsListing
       /\ Len(container.articles) = Len(StoredPosts)
       /\ \E f \in [1..Len(StoredPosts) -> 1..Len(StoredPosts)] :
            /\ OrdersByDate(f, StoredPosts, sortOrder)
            /\ container.articles = [k \in 1..Len(StoredPosts) |-> Article(StoredPosts[f[k]])]

C6_Witness ==
  /\ lastCall.op = "sortPosts"
  /\ sortOrder = "newest"
  /\ Len(StoredPosts) = 2
  /\ StoredPosts[1].date = StoredPosts[2].date
  /\ StoredPosts[1] # StoredPosts[2]
  /\ container.articles = ArticlesOf(StoredPosts)

\* C7: whenever the sequence of posts to display is empty, the container shows
\* a "no results" or placeholder message; no render path leaves it empty.
C7_EmptyShowsMessage ==
  (pc = "ready" /\ container.articles = <<>>)
    => container.kind \in {"placeholder", "noResults"}

\* C8: showPostDetail with an id no stored post has reports the error, issues
\* no comment request, attaches no modal and leaves the view's state as it was.
C8_UnknownIdStaysClosed ==
  [][(/\ lastCall'.op = "showPostDetail"
      /\ \A i \in 1..Len(StoredPosts) : StoredPosts[i].id # lastCall'.postId)
       => /\ lastCall'.logged.site = "showPostDetail.catch"
          /\ ~lastCall'.threw
          /\ commentRequests' = commentRequests
          /\ modals' = modals
          /\ DetailState' = DetailState]_vars

C8_Witness ==
  /\ lastCall.op = "showPostDetail"
  /\ lastCall.postId = MaxPosts + 1
  /\ Len(StoredPosts) = 2
  /\ lastCall.logged = Log("showPostDetail.catch", "Error: post not found")
  /\ DetailState = "Closed"

\* C9: when the comment request of showPostDetail fails (the fetch rejects, or
\* the body is no comment list), the failure is caught and logged, nothing is
\* thrown to the caller, no modal is attached, and with no other request in
\* flight the view is Closed.
C9_CommentFailureStaysClosed ==
  [][(/\ lastCall'.op = "showPostDetail.settled"
      /\ lastCall'.outcome \in {"networkError", "unparseable", "notAList"}
      /\ BagCardinality(commentRequests') < BagCardinality(commentRequests))
       => /\ ~lastCall'.threw
          /\ lastCall'.logged.site = "showPostDetail.catch"
          /\ modals' = modals
          /\ (BagCardinality(commentRequests) = 1 /\ modals = <<>>) => DetailState' = "Closed"]_vars

C9_Witness ==
  /\ lastCall.op = "showPostDetail.settled"
  /\ lastCall.outcome = "networkError"
  /\ lastCall.postId = 2
  /\ lastCall.logged.site = "showPostDetail.catch"
  /\ DetailState = "Closed"

\* C10: when the posts response is OK but its body is malformed (no JSON, or
\* not of the shape {posts: [...]}), loading ends with the store holding
\* exactly the fallback post, as for a non-2xx response.
C10_MalformedBodyFallback ==
  (/\ lastCall.op = "fetchPosts"
   /\ \/ lastCall.outcome = "unparseable"
      \/ lastCall.outcome = "ok" /\ ~(document.json = "object" /\ document.hasPosts))
    => /\ posts.type = "array"
       /\ Len(StoredPosts) = 1
       /\ IsSentinel(StoredPosts[1])

----------------------------------------------------------------------------
(* C11 .. C20 *)

\* the modals attached once the i-th of them has left the document
WithoutModal(attached, i) ==
  SubSeq(attached, 1, i - 1) \o SubSeq(attached, i + 1, Len(attached))

\* C11: a click on the close control of an attached modal, or a click whose
\* target is the modal element itself, removes that modal from the document
\* (if it was the only one and nothing is loading, the view is Closed); a click
\* on anything else inside the modal leaves every modal attached.
C11_ModalCloses ==
  [][\A i \in 1..Len(modals), target \in ClickTargets :
       ModalClick(i, target) =>
         /\ target \in {"close-modal", "modal"} =>
              /\ modals' = WithoutModal(modals, i)
              /\ (Len(modals) = 1 /\ commentRequests = EmptyBag) => DetailState' = "Closed"
         /\ target \notin {"close-modal", "modal"} =>
              /\ modals' = modals
              /\ DetailState' = "Shown"]_vars

C11_Witness ==
  /\ lastCall.op = "modalClick"
  /\ lastCall.outcome = "modal"
  /\ DetailState = "Closed"

\* C12: after a click on the read-more button of a rendered post, showPostDetail
\* has been called with that post's id: a comment request for the id is in
\* flight, and it is for the first stored post with that id.
C12_ReadMoreOpensDetail ==
  lastCall.op = "readMoreClick"
    => \E request \in BagToSet(commentRequests) :
         /\ request.postId = lastCall.postId
         /\ \E i \in 1..Len(StoredPosts) :
              /\ StoredPosts[i].id = lastCall.postId
              /\ \A j \in 1..(i - 1) : StoredPosts[j].id # lastCall.postId
              /\ request.post = StoredPosts[i]

\* the field holds a character that is not white space
HasText(field) == \E k \in 1..Len(field.value) : field.value[k] # " "

\* every required field of the form holds text
AllRequiredFilled(f) ==
  \A i \in 1..Len(f.fields) : f.fields[i].required => HasText(f.fields[i])

\* C13: on a page with the form and its status element, a submit event shows
\* the success status (the status element turns to success and its timer is
\* armed) and resets every field if and only if every required field holds a
\* non-blank value after trimming; otherwise no success status is shown by this
\* submit, no field is reset and no request is issued.
C13_SubmitValidates ==
  [][(Submit /\ "submission-status" \in page.present)
       => /\ AllRequiredFilled(form) =>
               /\ form'.status = "success"
               /\ form'.timers = form.timers + 1
               /\ \A i \in 1..Len(form'.fields) : form'.fields[i].value = <<>>
          /\ ~AllRequiredFilled(form) =>
               /\ form'.status = "success" => (form.status = "success" /\ form'.timers = form.timers)
               /\ form'.fields = form.fields
               /\ fetches' = fetches
               /\ commentRequests' = commentRequests]_vars

C13_Witness ==
  /\ lastCall.op = "handleSubmit"
  /\ lastCall.outcome = "valid"
  /\ form.status = "success"
  /\ \E i \in 1..Len(form.fields) : form.fields[i].required
  /\ \A i \in 1..Len(form.fields) : form.fields[i].value = <<>>

\* C14: whatever elements the page lacks and however the posts request ends,
\* no start-up handler and no event handler lets an exception escape.
C14_NoUncaughtFailure == page.uncaught = {} /\ ~lastCall.threw

\* C15: a renderPosts call that follows a renderPosts call on the same
\* sequence leaves the container with the content it had.
C15_RenderIdempotent ==
  [][(RenderPosts /\ renders >= 1) => container' = container]_vars

C15_Witness ==
  /\ renders = 2
  /\ container.kind = "articles"
  /\ Len(container.articles) = 2
  /\ container.articles = ArticlesOf(StoredPosts)

ControlCalls == {"setupUI", "addSearchFeature"}

\* x occurs in calls, and before every occurrence of y
Precedes(calls, x, y) ==
  /\ \E i \in 1..Len(calls) : calls[i] = x
  /\ \A i \in 1..Len(calls), j \in 1..Len(calls) :
       (calls[i] = x /\ calls[j] = y) => i < j

\* C17: before the load has settled init() has built no control and rendered
\* nothing; when init() has finished, its calls were, in this order: load the
\* posts, derive the categories, build the controls, render the view.
C17_InitOrder ==
  /\ pc = "loading" => (initSteps = <<>> /\ controls = {} /\ container = StaticHtml)
  /\ pc = "ready" =>
       /\ initSteps # <<>>
       /\ initSteps[1] = "fetchPosts"
       /\ Precedes(initSteps, "initializeCategories", "setupUI")
       /\ \E i \in 1..Len(initSteps) : initSteps[i] \in ControlCalls
       /\ \A c \in ControlCalls : \A i \in 1..Len(initSteps), j \in 1..Len(initSteps) :
            (initSteps[i] = c /\ initSteps[j] = "renderPosts") => i < j

\* C18: the view init() renders is unfiltered and default-sorted: currentFilter
\* is "all", sortOrder is "newest", and the listing holds every stored post,
\* newest first.
C18_InitialViewDefaultSorted ==
  (lastCall.op = "init" /\ pc = "ready")
    => /\ currentFilter = "all"
       /\ sortOrder = "newest"
       /\ container.articles = ArticlesOf(CombinedView(StoredPosts, "all", <<>>, "newest"))

\* the distinct category values of the stored posts
DistinctCategories == {StoredPosts[i].category : i \in 1..Len(StoredPosts)}

\* C19: once init() of the full draft has finished, the stored category set is
\* the set of distinct categories of the stored posts, and the category select
\* offers "all" and exactly those categories.
C19_CategoriesDerived ==
  (version = "full" /\ pc = "ready")
    => /\ categories = DistinctCategories
       /\ categoryOptions = {"all"} \cup DistinctCategories

C19_Witness ==
  /\ version = "full"
  /\ pc = "ready"
  /\ Len(StoredPosts) = 2
  /\ categories = {"Tech", "tech"}
  /\ categoryOptions = {"all", "Tech", "tech"}

\* C20: at no time are two posts requests of the manager pending, and at no
\* time are two comment requests of the detail view pending.
C20_SingleRequestInFlight ==
  /\ Cardinality(fetches) <= 1
  /\ BagCardinality(commentRequests) <= 1

----------------------------------------------------------------------------
(* C21 .. C25 *)

\* C21: a category-change, search-input or sort-change event leaves the store
\* as it was, the same posts in the same order; the store changes only when a
\* posts request settles.
C21_StoreUnchangedByView ==
  [][/\ lastCall'.op \in {"filterByCategory", "search", "sortPosts"} => posts' = posts
     /\ posts' # posts => lastCall'.op = "fetchPosts"]_vars

C21_Witness ==
  /\ lastCall.op = "sortPosts"
  /\ sortOrder = "newest"
  /\ Len(StoredPosts) = 2
  /\ StoredPosts = document.posts
  /\ container.articles = <<Article(StoredPosts[2]), Article(StoredPosts[1])>>
  /\ container.articles # ArticlesOf(StoredPosts)

\* C22: after a submit that validation blocked, every required field that is
\* blank after trimming shows the required message and every required field
\* that is filled shows none.
C22_AllRequiredMessages ==
  (lastCall.op = "handleSubmit" /\ lastCall.outcome = "blocked")
    => \A i \in 1..Len(form.fields) :
         form.fields[i].required =>
           form.errors[i] = IF HasText(form.fields[i]) THEN "" ELSE RequiredMessage

\* C23: once every posts request has settled and init() has finished, and no
\* category or search term narrows the view, the listing shows exactly the
\* posts the store holds.
C23_ListingMatchesStore ==
  (fetches = {} /\ pc = "ready" /\ currentFilter = "all" /\ searchValue = <<>>)
    => /\ posts.type = "array"
       /\ Len(container.articles) = Len(StoredPosts)
       /\ \A i \in 1..Len(StoredPosts) :
            \E k \in 1..Len(container.articles) : container.articles[k] = Article(StoredPosts[i])

\* C24: a submit that calls showStatus sets the status at once; a status that
\* is displayed is eventually cleared; and whenever no timer is pending, also
\* after submits that overlapped, the status element shows nothing.
C24_StatusCleared ==
  /\ [][(Submit /\ form'.timers = form.timers + 1) => form'.status \in {"success", "error"}]_vars
  /\ [](form.timers = 0 => form.status = "")
  /\ (form.status # "") ~> (form.status = "")

C24_Witness ==
  /\ lastCall.op = "statusTimeout"
  /\ form.timers = 1
  /\ form.status = ""

====
